---- MODULE Spec2Model ----
(***************************************************************************)
(* Checkout and order materialization of apps/ventas/views.py.            *)
(*                                                                         *)
(* Money is kept in centavos (Decimal with two places), loyalty points in  *)
(* millionths (centavos * 0.0005 / 100 = centavos * 5 * 10^-6).            *)
(* The committed database is the variables stock .. envios; a running      *)
(* confirmation keeps its uncommitted work in its own record tx[r] until   *)
(* transaction.atomic() commits it or rolls it back.  Rows are read at     *)
(* statement time (READ COMMITTED), select_for_update() holds a row lock   *)
(* until the transaction ends.                                             *)
(***************************************************************************)
EXTENDS Integers, Sequences, FiniteSets, TLC

\* ------------------------------------------------------------------ bounds
MaxCant == 1            \* largest quantity of one cart line
MaxStock == 2           \* initial stock of product 1
NConfirmaciones == 3    \* concurrent confirmations of the last unit (SpecOversell)

Productos == {1, 2}
Clientes == {1, 2}
Tiendas == {1}
TiendasCatalogo == {1, 2}   \* the Tienda rows; orders are placed at store 1
SesionIds == {1, 2}     \* checkout sessions the processor holds
LargosCarrito == {1, 2} \* number of lines of a cart
\* prices the catalog gives a product: 50.00 or 60.00 for product 1, 0.30 for
\* product 2
Precios == [p \in Productos |-> IF p = 1 THEN {5000, 6000} ELSE {30}]

PrecioInicial == [p \in Productos |-> IF p = 1 THEN 5000 ELSE 30]
\* product 2 is down to its last unit
StockInicial == [p \in Productos |-> IF p = 1 THEN MaxStock ELSE 1]
\* every product is of store 1 and active
TiendaInicial == [p \in Productos |-> 1]
EstadoInicial == [p \in Productos |-> TRUE]
\* customer 1 already bought in the store, customer 2 never did
AsociacionInicial == [c \in Clientes |-> IF c = 1 THEN 1 ELSE 0]

Lineas == [producto_id : Productos, cantidad : 1..MaxCant]
Carts == UNION {[1..n -> Lineas] : n \in LargosCarrito}

VARIABLES
    stock,          \* Producto.stock, committed
    precio,         \* Producto.precio, committed (centavos)
    producto_tienda,    \* Producto.tienda
    producto_estado,    \* Producto.estado: the product is active
    puntos,         \* Cliente.puntos_acumulados, committed (millionths)
    asociaciones,   \* number of TiendaCliente rows of (tienda 1, cliente)
    carritos,       \* Carrito rows
    detalles_carrito,
    ventas,         \* Venta rows
    detalles_venta,
    pagos,          \* Pago rows
    envios,         \* Envio rows
    sesiones,       \* the processor's checkout sessions, by session id
    tx              \* the requests: confirmations, and quotes and staff updates
                    \* where a specification keeps their answers

db == <<stock, precio, producto_tienda, producto_estado, puntos, asociaciones, carritos, detalles_carrito,
        ventas, detalles_venta, pagos, envios>>
tablas == <<asociaciones, carritos, detalles_carrito, ventas, detalles_venta,
            pagos, envios>>
vars == <<stock, precio, producto_tienda, producto_estado, puntos, asociaciones, carritos, detalles_carrito,
          ventas, detalles_venta, pagos, envios, sesiones, tx>>

Reqs == DOMAIN tx

\* ------------------------------------------------------- pure computations
\* Decimal.quantize(Decimal('0.01')) of n/100 centavos under the default
\* context (ROUND_HALF_EVEN)
Quantize(n) ==
    LET q == n \div 100
        r == n % 100
    IN  IF r > 50 THEN q + 1
        ELSE IF r < 50 THEN q
        ELSE IF q % 2 = 0 THEN q ELSE q + 1

\* the first tier charges 20 %
porcentaje_veinte(subtotal) ==
    IF subtotal = 0 THEN 0
    ELSE IF subtotal < 10000 THEN 20
    ELSE IF subtotal < 50000 THEN 10
    ELSE IF subtotal < 100000 THEN 5
    ELSE 0

\* lines 41-50
porcentaje_envio(subtotal) ==
    IF subtotal = 0 THEN 0
    ELSE IF subtotal < 10000 THEN 15
    ELSE IF subtotal < 50000 THEN 10
    ELSE IF subtotal < 100000 THEN 5
    ELSE 0

calcular_costo_envio(subtotal) == Quantize(subtotal * porcentaje_envio(subtotal))

puntos_ganados(total_pagado) == total_pagado * 5

RECURSIVE SumaSeq(_)
SumaSeq(s) == IF s = <<>> THEN 0 ELSE Head(s) + SumaSeq(Tail(s))

\* --------------------------------------------------------------- sessions
\* what stripe.checkout.Session.create receives as line_items
ItemsStripe(items) ==
    [i \in 1..Len(items) |->
        [unit_amount |-> precio[items[i].producto_id],
         quantity    |-> items[i].cantidad]]

SubtotalCotizado(items) ==
    SumaSeq([i \in 1..Len(items) |->
                precio[items[i].producto_id] * items[i].cantidad])

\* the quote sends no line for the shipping cost
SinLineaEnvio(costo_envio) == << >>

LineaEnvio(costo_envio) ==
    IF costo_envio > 0
    THEN << [unit_amount |-> costo_envio, quantity |-> 1] >>
    ELSE << >>

line_items_for_stripe(items) ==
    ItemsStripe(items) \o LineaEnvio(calcular_costo_envio(SubtotalCotizado(items)))

\* the amount the processor charges for a session: the sum of its line items
amount_total(line_items) ==
    SumaSeq([i \in 1..Len(line_items) |->
                line_items[i].unit_amount * line_items[i].quantity])

\* the product is looked up by id alone
ProductoSinFiltro(t, p) == p \in Productos

\* lines 105-110: Producto.objects.get(pk=..., tienda=tienda, estado=True)
ProductoElegible(t, p) ==
    /\ p \in Productos
    /\ producto_tienda[p] = t
    /\ producto_estado[p]

\* lines 105-114: the product of the line is not found, or has less stock than
\* the line asks for
LineaRechazada(t, linea) ==
    \/ ~ProductoElegible(t, linea.producto_id)
    \/ stock[linea.producto_id] < linea.cantidad

\* the line at which the loop of lines 104-128 stops, 0 if it runs to its end
PrimerRechazo(t, items) ==
    IF \E i \in 1..Len(items) : LineaRechazada(t, items[i])
    THEN CHOOSE i \in 1..Len(items) :
            /\ LineaRechazada(t, items[i])
            /\ \A j \in 1..(i - 1) : ~LineaRechazada(t, items[j])
    ELSE 0

\* lines 74-138: the status code of the quote of user c (0: no customer
\* profile) at store t for the cart items
respuesta_cotizacion(c, t, items) ==
    IF c \notin Clientes THEN 403
    ELSE IF items = << >> THEN 400
    ELSE IF t \notin TiendasCatalogo THEN 404
    ELSE IF PrimerRechazo(t, items) = 0 THEN 200
    ELSE IF ~ProductoElegible(t, items[PrimerRechazo(t, items)].producto_id)
    THEN 404
    ELSE 400

NuevaSesion(c, t, items) ==
    [status         |-> "open",
     user_id        |-> c,
     tienda_id      |-> t,
     direccion_entrega |-> "calle",
     items_data     |-> items,
     line_items     |-> line_items_for_stripe(items),
     amount_total   |-> amount_total(line_items_for_stripe(items)),
     payment_intent |-> 0]

\* the quote takes the quoted units out of the stock
CotizacionQueReserva(c, t, items) ==
    /\ sesiones' = IF respuesta_cotizacion(c, t, items) = 200
                   THEN Append(sesiones, NuevaSesion(c, t, items))
                   ELSE sesiones
    /\ stock' = IF respuesta_cotizacion(c, t, items) = 200
                THEN [p \in Productos |->
                        IF items[1].producto_id = p
                        THEN stock[p] - items[1].cantidad ELSE stock[p]]
                ELSE stock
    /\ UNCHANGED <<precio, producto_tienda, producto_estado, puntos, tablas>>

\* lines 67-180: the session is created when every check passed; no row is
\* written on any path
EfectoCotizacion(c, t, items) ==
    /\ sesiones' = IF respuesta_cotizacion(c, t, items) = 200
                   THEN Append(sesiones, NuevaSesion(c, t, items))
                   ELSE sesiones
    /\ UNCHANGED db

\* POST pagos/crear-sesion-checkout
crear_sesion_checkout(c, t, items) ==
    /\ Len(sesiones) < Cardinality(SesionIds)
    /\ EfectoCotizacion(c, t, items)
    /\ UNCHANGED tx

\* POST pagos/crear-sesion-checkout as request r, which keeps what was asked
\* and the status code answered
Cotizar(r, c, t, items) ==
    /\ tx[r].pc = "libre"
    /\ \A q \in Reqs : q < r => tx[q].pc # "libre"
    /\ Len(sesiones) < Cardinality(SesionIds)
    /\ EfectoCotizacion(c, t, items)
    /\ tx' = [tx EXCEPT ![r] =
                [pc |-> IF respuesta_cotizacion(c, t, items) = 200
                        THEN "ok" ELSE "error",
                 err |-> "", codigo |-> respuesta_cotizacion(c, t, items),
                 cliente |-> c, tienda |-> t, items |-> items,
                 sesion |-> IF respuesta_cotizacion(c, t, items) = 200
                            THEN Len(sesiones) + 1 ELSE 0]]

\* the customer pays on the hosted page: the session completes and carries the
\* payment-intent id of the charge
Pagar(s) ==
    /\ s \in 1..Len(sesiones)
    /\ sesiones[s].status = "open"
    /\ sesiones' = [sesiones EXCEPT ![s].status = "complete",
                                    ![s].payment_intent = s]
    /\ UNCHANGED <<db, tx>>

\* ----------------------------------------------------------- confirmations
TxLibre ==
    [pc |-> "libre", sid |-> 0, err |-> "", puntos0 |-> 0, asoc_nueva |-> FALSE,
     idx |-> 1, subtotal |-> 0, lineas |-> << >>, prods |-> << >>]

Activa(r) == tx[r].pc \in {"asoc", "items", "cierre", "commit"}
ClienteDe(r) == sesiones[tx[r].sid].user_id
TiendaDe(r) == sesiones[tx[r].sid].tienda_id
ItemsDe(r) == sesiones[tx[r].sid].items_data
total_pagado(r) == sesiones[tx[r].sid].amount_total

\* the request has answered: its transaction is over and its locks are gone
Terminada(r, pc, err) ==
    [TxLibre EXCEPT !.pc = pc, !.sid = tx[r].sid, !.err = err]

\* the exception is caught but the block is not atomic: the association made
\* by get_or_create stays
RollbackSinAtomic(r, err) ==
    /\ tx' = [tx EXCEPT ![r] = Terminada(r, "error", err)]
    /\ asociaciones' = [asociaciones EXCEPT ![sesiones[tx[r].sid].user_id] =
                            IF tx[r].asoc_nueva THEN @ + 1 ELSE @]
    /\ UNCHANGED <<stock, precio, producto_tienda, producto_estado, puntos,
                   carritos, detalles_carrito, ventas, detalles_venta, pagos,
                   envios>>

\* an exception inside "with transaction.atomic()": nothing is kept
Rollback(r, err) ==
    /\ tx' = [tx EXCEPT ![r] = Terminada(r, "error", err)]
    /\ UNCHANGED db

\* any retrieved session passes the status check
SesionCualquiera(ses) == TRUE

\* line 198: session.status == 'complete'
SesionCompleta(ses) == ses.status = "complete"

\* lines 201-213: all([user_id, tienda_id, direccion_entrega, items_data_str,
\* stripe_payment_id]); an absent key reads as 0, "" or << >>
MetadataCompleta(ses) ==
    /\ ses.user_id # 0
    /\ ses.tienda_id # 0
    /\ ses.direccion_entrega # ""
    /\ ses.items_data # << >>
    /\ ses.payment_intent # 0

\* lines 190-224: retrieve the session, check it, open the transaction and read
\* the customer
Iniciar(r, sid) ==
    /\ tx[r].pc = "libre"
    /\ \A q \in Reqs : q < r => tx[q].pc # "libre"
    /\ sid \in 0..Len(sesiones)
    /\ tx' = [tx EXCEPT ![r] =
                IF sid = 0
                THEN [TxLibre EXCEPT !.pc = "error", !.err = "sin_session_id"]
                ELSE IF ~SesionCompleta(sesiones[sid])
                THEN [TxLibre EXCEPT !.pc = "error", !.sid = sid,
                                     !.err = "no_completada"]
                ELSE IF ~MetadataCompleta(sesiones[sid])
                THEN [TxLibre EXCEPT !.pc = "error", !.sid = sid,
                                     !.err = "metadata_incompleta"]
                ELSE [TxLibre EXCEPT !.pc = "asoc", !.sid = sid,
                                     !.puntos0 = puntos[sesiones[sid].user_id]]]
    /\ UNCHANGED <<db, sesiones>>

\* another open transaction has inserted the (tienda, cliente) row and not yet
\* committed: the unique index makes this insert wait for it
EsperaAsociacion(r) ==
    \E q \in Reqs : q # r /\ Activa(q) /\ tx[q].asoc_nueva
                    /\ ClienteDe(q) = ClienteDe(r)

\* create() in place of get_or_create(): a row is inserted every time
SiempreCrearAsociacion(r) ==
    /\ tx[r].pc = "asoc"
    /\ tx' = [tx EXCEPT ![r].pc = "items", ![r].asoc_nueva = TRUE]
    /\ UNCHANGED <<db, sesiones>>

\* lines 226-246: TiendaCliente.objects.get_or_create, Carrito.objects.create
AsegurarAsociacion(r) ==
    /\ tx[r].pc = "asoc"
    /\ IF asociaciones[ClienteDe(r)] > 1
       THEN Rollback(r, "multiples_asociaciones")
       ELSE IF asociaciones[ClienteDe(r)] = 1
       THEN /\ tx' = [tx EXCEPT ![r].pc = "items"]
            /\ UNCHANGED db
       ELSE /\ ~EsperaAsociacion(r)
            /\ tx' = [tx EXCEPT ![r].pc = "items", ![r].asoc_nueva = TRUE]
            /\ UNCHANGED db
    /\ UNCHANGED sesiones

\* the request holds the row lock of product p
Bloquea(r, p) ==
    /\ tx[r].pc \in {"items", "cierre", "commit"}
    /\ \E i \in 1..Len(tx[r].prods) : tx[r].prods[i].id = p

Bloqueado(p) == \E q \in Reqs : Bloquea(q, p)

ProductoActual(r) == ItemsDe(r)[tx[r].idx].producto_id

\* a plain get() in place of select_for_update().get(): nobody waits
EsperaSinLock(r, q) == FALSE

\* r waits for a row lock that q holds
Espera(r, q) ==
    /\ r # q
    /\ tx[r].pc = "items"
    /\ Bloquea(q, ProductoActual(r))

RECURSIVE Alcanza(_, _)
Alcanza(S, n) ==
    IF n = 0 THEN S
    ELSE Alcanza(S \cup {q \in Reqs : \E w \in S : Espera(w, q)}, n - 1)

\* the database does not look for cycles of lock waits
SinDeteccion(r) == FALSE

\* r waits in a cycle of lock waits
EnCiclo(r) == r \in Alcanza({q \in Reqs : Espera(r, q)}, Cardinality(Reqs))

\* the loop does not compare the stock with the quantity
SinControlStock(p, cantidad) == FALSE

\* line 252
StockInsuficiente(p, cantidad) == stock[p] < cantidad

\* lines 248-268: one pass of the loop over the cart lines
ProcesarItem(r) ==
    /\ tx[r].pc = "items"
    /\ LET item == ItemsDe(r)[tx[r].idx]
           p == item.producto_id
           cantidad == item.cantidad
       IN  /\ \A q \in Reqs : ~Espera(r, q)
           /\ IF StockInsuficiente(p, cantidad)
              THEN Rollback(r, "stock_insuficiente")
              ELSE /\ tx' = [tx EXCEPT
                        ![r].subtotal = @ + precio[p] * cantidad,
                        ![r].lineas = Append(@, [producto |-> p,
                                                 cantidad |-> cantidad,
                                                 precio_unitario |-> precio[p]]),
                        ![r].prods = Append(@, [id |-> p,
                                                stock |-> stock[p] - cantidad]),
                        ![r].idx = @ + 1,
                        ![r].pc = IF tx[r].idx = Len(ItemsDe(r))
                                  THEN "cierre" ELSE "items"]
                   /\ UNCHANGED db
    /\ UNCHANGED sesiones

\* the database breaks a cycle of lock waits by failing one of the waiting
\* statements
AbortarDeadlock(r) ==
    /\ tx[r].pc = "items"
    /\ EnCiclo(r)
    /\ Rollback(r, "deadlock")
    /\ UNCHANGED sesiones

\* Producto.objects.bulk_update(objs, ['stock']): one UPDATE with a CASE over
\* the primary keys, so of two objects with the same pk the first one decides
bulk_update(prods) ==
    [p \in Productos |->
        IF \E i \in 1..Len(prods) : prods[i].id = p
        THEN LET i == CHOOSE i \in 1..Len(prods) :
                        /\ prods[i].id = p
                        /\ \A j \in 1..(i - 1) : prods[j].id # p
             IN  prods[i].stock
        ELSE stock[p]]

total_final_seguro(r) == tx[r].subtotal + calcular_costo_envio(tx[r].subtotal)

\* line 242
NuevoCarrito(r) ==
    [id |-> r, cliente |-> ClienteDe(r), tienda |-> TiendaDe(r),
     total |-> total_pagado(r)]

\* lines 258-265, 309
NuevosDetallesCarrito(r) ==
    {[carrito |-> r, n |-> i, producto |-> tx[r].lineas[i].producto,
      cantidad |-> tx[r].lineas[i].cantidad,
      precio_unitario |-> tx[r].lineas[i].precio_unitario] :
        i \in 1..Len(tx[r].lineas)}

\* the sale is given the recomputed subtotal, without the shipping cost
VentaConSubtotal(r) ==
    [id |-> r, total |-> tx[r].subtotal, estado |-> "PROCESADA",
     tienda |-> TiendaDe(r), cliente |-> ClienteDe(r), carrito |-> r]

\* lines 276-282
NuevaVenta(r) ==
    [id |-> r, total |-> total_pagado(r), estado |-> "PROCESADA",
     tienda |-> TiendaDe(r), cliente |-> ClienteDe(r), carrito |-> r]

\* lines 284-292, 310
NuevosDetallesVenta(r) ==
    {[venta |-> r, n |-> i, producto |-> tx[r].lineas[i].producto,
      cantidad |-> tx[r].lineas[i].cantidad,
      precio_historico |-> tx[r].lineas[i].precio_unitario] :
        i \in 1..Len(tx[r].lineas)}

\* lines 294-300
NuevoPago(r) ==
    [id |-> r, venta |-> r, tienda |-> TiendaDe(r),
     stripe_payment_intent_id |-> sesiones[tx[r].sid].payment_intent,
     monto_total |-> total_pagado(r), estado |-> "COMPLETADO"]

\* the shipment is not created
SinEnvio(r) == {}

\* lines 302-307
NuevoEnvio(r) ==
    {[venta |-> r, tienda |-> TiendaDe(r), estado |-> "EN_PREPARACION"]}

\* lines 226-229: the association the transaction inserted, if it did
AsociacionesTrasCommit(r) ==
    [asociaciones EXCEPT
        ![ClienteDe(r)] = IF tx[r].asoc_nueva THEN @ + 1 ELSE @]

\* lines 313-315: the balance read at line 223 plus the points of this sale
PuntosTrasCommit(r) ==
    [puntos EXCEPT
        ![ClienteDe(r)] = tx[r].puntos0 + puntos_ganados(total_pagado(r))]

\* lines 276-322 and the commit of the atomic block
Commit(r) ==
    /\ asociaciones' = AsociacionesTrasCommit(r)
    /\ carritos' = carritos \cup {NuevoCarrito(r)}
    /\ detalles_carrito' = detalles_carrito \cup NuevosDetallesCarrito(r)
    /\ ventas' = ventas \cup {NuevaVenta(r)}
    /\ detalles_venta' = detalles_venta \cup NuevosDetallesVenta(r)
    /\ pagos' = pagos \cup {NuevoPago(r)}
    /\ envios' = envios \cup NuevoEnvio(r)
    /\ stock' = bulk_update(tx[r].prods)
    /\ puntos' = PuntosTrasCommit(r)
    /\ UNCHANGED <<precio, producto_tienda, producto_estado>>
    /\ tx' = [tx EXCEPT ![r] = Terminada(r, "ok", "")]

\* the totals are not compared
DiscrepanciaIgnorada(r) == FALSE

\* line 273
Discrepancia(r) == total_final_seguro(r) # total_pagado(r)

\* lines 270-328: the comparison of totals, the records of the sale, the
\* commit; "falla" is a statement of lines 276-322 raising (a record that
\* cannot be created, the points update, log_action)
Cerrar(r, falla) ==
    /\ tx[r].pc = "cierre"
    /\ IF Discrepancia(r)
       THEN Rollback(r, "discrepancia")
       ELSE IF falla
       THEN Rollback(r, "interno")
       ELSE Commit(r)
    /\ UNCHANGED sesiones

\* the catalog changes the price of a product; the UPDATE waits while a
\* confirmation holds the row lock
CambiarPrecio(p, v) ==
    /\ ~Bloqueado(p)
    /\ precio[p] # v
    /\ precio' = [precio EXCEPT ![p] = v]
    /\ UNCHANGED <<stock, producto_tienda, producto_estado, puntos, tablas,
                   sesiones, tx>>

\* the store activates or deactivates a product
CambiarEstado(p) ==
    /\ ~Bloqueado(p)
    /\ producto_estado' = [producto_estado EXCEPT ![p] = ~@]
    /\ UNCHANGED <<stock, precio, producto_tienda, puntos, tablas, sesiones, tx>>

\* ------------------------------------------------------------ specification
Init ==
    /\ stock = StockInicial
    /\ precio = PrecioInicial
    /\ producto_tienda = TiendaInicial
    /\ producto_estado = EstadoInicial
    /\ puntos = [c \in Clientes |-> 0]
    /\ asociaciones = AsociacionInicial
    /\ carritos = {}
    /\ detalles_carrito = {}
    /\ ventas = {}
    /\ detalles_venta = {}
    /\ pagos = {}
    /\ envios = {}
    /\ sesiones = << >>
    /\ tx = [r \in {1, 2} |-> TxLibre]

Next ==
    \/ \E c \in Clientes, t \in Tiendas, items \in Carts :
            crear_sesion_checkout(c, t, items)
    \/ \E s \in SesionIds : Pagar(s)
    \/ \E p \in Productos : \E v \in Precios[p] : CambiarPrecio(p, v)
    \/ \E r \in Reqs : \E sid \in 0..Len(sesiones) : Iniciar(r, sid)
    \/ \E r \in Reqs : AsegurarAsociacion(r)
    \/ \E r \in Reqs : ProcesarItem(r)
    \/ \E r \in Reqs : AbortarDeadlock(r)
    \/ \E r \in Reqs, falla \in BOOLEAN : Cerrar(r, falla)

Spec == Init /\ [][Next]_vars

\* ------------------------------------------------- the last unit of a product
\* NConfirmaciones completed sessions, each of one line asking for 1 unit of
\* product 1, whose stock is 1; the sessions were quoted at the current price
SesionUltimaUnidad(c, s) ==
    [NuevaSesion(c, 1, << [producto_id |-> 1, cantidad |-> 1] >>)
        EXCEPT !.status = "complete", !.payment_intent = s]

InitOversell ==
    /\ stock = [StockInicial EXCEPT ![1] = 1]
    /\ precio = PrecioInicial
    /\ producto_tienda = TiendaInicial
    /\ producto_estado = EstadoInicial
    /\ puntos = [c \in Clientes |-> 0]
    /\ asociaciones = AsociacionInicial
    /\ carritos = {}
    /\ detalles_carrito = {}
    /\ ventas = {}
    /\ detalles_venta = {}
    /\ pagos = {}
    /\ envios = {}
    /\ \E f \in [1..NConfirmaciones -> Clientes] :
          sesiones = [s \in 1..NConfirmaciones |-> SesionUltimaUnidad(f[s], s)]
    /\ tx = [r \in 1..NConfirmaciones |-> TxLibre]

NextOversell ==
    \/ \E r \in Reqs : \E sid \in 1..Len(sesiones) : Iniciar(r, sid)
    \/ \E r \in Reqs : AsegurarAsociacion(r)
    \/ \E r \in Reqs : ProcesarItem(r)
    \/ \E r \in Reqs : Cerrar(r, FALSE)

SpecOversell == InitOversell /\ [][NextOversell]_vars

\* ------------------------------------------------------------------ claims
Respondida(r) == tx[r].pc \in {"ok", "error"}

\* no committed row carries the id of request r
NadaPersistido(r) ==
    /\ \A x \in carritos : x.id # r
    /\ \A x \in detalles_carrito : x.carrito # r
    /\ \A x \in ventas : x.id # r
    /\ \A x \in detalles_venta : x.venta # r
    /\ \A x \in pagos : x.venta # r
    /\ \A x \in envios : x.venta # r

\* the next statement of r does not wait for another transaction
Avanza(r) ==
    \/ tx[r].pc = "libre" /\ \A q \in Reqs : q < r => tx[q].pc # "libre"
    \/ tx[r].pc = "asoc"
         /\ (asociaciones[ClienteDe(r)] >= 1 \/ ~EsperaAsociacion(r))
    \/ tx[r].pc = "items" /\ \A q \in Reqs : ~Espera(r, q)
    \/ tx[r].pc = "cierre"

\* C1: of N concurrent confirmations of the last unit of product 1 exactly one
\* commits an order and the stock ends at 0; every other one fails with the
\* insufficient-stock error and persists nothing; until all have answered some
\* confirmation can take its next step.
C1_OversellPrevention ==
    /\ Cardinality(ventas) <= 1
    /\ stock[1] = 1 - Cardinality(ventas)
    /\ \A r \in Reqs : tx[r].pc = "ok" <=> \E v \in ventas : v.id = r
    /\ \A r \in Reqs : tx[r].pc = "error" =>
            tx[r].err = "stock_insuficiente" /\ NadaPersistido(r)
    /\ \A c \in Clientes :
            /\ asociaciones[c] =
                 IF AsociacionInicial[c] = 1 \/ \E v \in ventas : v.cliente = c
                 THEN 1 ELSE 0
            /\ (\A v \in ventas : v.cliente # c) => puntos[c] = 0
    /\ (\E r \in Reqs : ~Respondida(r)) => \E r \in Reqs : Avanza(r)
    /\ (\A r \in Reqs : Respondida(r)) =>
            /\ Cardinality({r \in Reqs : tx[r].pc = "ok"}) = 1
            /\ Cardinality({r \in Reqs : tx[r].pc = "error"}) = Cardinality(Reqs) - 1
            /\ stock[1] = 0

\* all confirmations have answered: one order, the others out of stock
C1_Witness ==
    /\ \A r \in Reqs : Respondida(r)
    /\ Cardinality({r \in Reqs : tx[r].pc = "ok"}) = 1
    /\ Cardinality({r \in Reqs : tx[r].err = "stock_insuficiente"}) = NConfirmaciones - 1
    /\ Cardinality(ventas) = 1
    /\ stock[1] = 0

\* a confirmation answers with an error in this step
Falla(r) == tx[r].pc \in {"asoc", "items", "cierre"} /\ tx'[r].pc = "error"

\* C2: a step in which a confirmation fails inside the transaction leaves the
\* whole committed state as it was; the committed state changes only in the
\* step that commits a confirmation (or changes a price in the catalog), so no
\* request reads a part of a transaction; and no row of a confirmation that
\* has not committed is in the committed tables.
C2_AllOrNothing ==
    /\ [][\A r \in Reqs : Falla(r) => UNCHANGED db]_vars
    /\ [][db' # db =>
            \/ \E r \in Reqs : tx[r].pc = "cierre" /\ tx'[r].pc = "ok"
            \/ UNCHANGED <<stock, puntos, tablas, tx>>]_vars
    /\ [](\A r \in Reqs : tx[r].pc # "ok" => NadaPersistido(r))

\* a confirmation of customer 2, who had no association, failed after its
\* get_or_create and its stock decrements, and the customer still has none
C2_Witness ==
    \E r \in Reqs :
        /\ tx[r].pc = "error"
        /\ tx[r].err \in {"interno", "discrepancia"}
        /\ sesiones[tx[r].sid].user_id = 2
        /\ asociaciones[2] = 0
        /\ stock = StockInicial

\* the total of the cart of r at the prices the catalog holds now
TotalRecalculado(r) ==
    LET sub == SumaSeq([i \in 1..Len(ItemsDe(r)) |->
                   ItemsDe(r)[i].cantidad * precio[ItemsDe(r)[i].producto_id]])
    IN  sub + calcular_costo_envio(sub)

\* C3: when the loop over the cart is done and the total recomputed from the
\* current (locked) prices differs from the captured amount, the next step of
\* the confirmation is the error "discrepancia" and it changes nothing
\* committed; a confirmation that failed so has no row.
C3_DiscrepancyDetection ==
    /\ [][\A r \in Reqs :
            (tx[r].pc = "cierre" /\ TotalRecalculado(r) # total_pagado(r)
                /\ tx'[r] # tx[r])
            => (tx'[r].pc = "error" /\ tx'[r].err = "discrepancia"
                /\ UNCHANGED db)]_vars
    /\ [](\A r \in Reqs : tx[r].err = "discrepancia" => NadaPersistido(r))

\* a confirmation failed with the discrepancy error: the price of a product of
\* its cart is not the one its session was quoted at
C3_Witness ==
    \E r \in Reqs :
        /\ tx[r].err = "discrepancia"
        /\ \E i \in 1..Len(ItemsDe(r)) :
              sesiones[tx[r].sid].line_items[i].unit_amount
                  # precio[ItemsDe(r)[i].producto_id]
        /\ ventas = {}

\* C4: every Venta has exactly one Pago, one Envio and one Carrito, every Pago
\* and Envio belongs to a Venta, and a product whose stock is below its
\* initial value is in a line of a committed Venta.
C4_SiblingRecords ==
    /\ \A v \in ventas :
          /\ Cardinality({x \in pagos : x.venta = v.id}) = 1
          /\ Cardinality({x \in envios : x.venta = v.id}) = 1
          /\ Cardinality({x \in carritos : x.id = v.carrito}) = 1
    /\ \A x \in pagos : \E v \in ventas : v.id = x.venta
    /\ \A x \in envios : \E v \in ventas : v.id = x.venta
    /\ \A p \in Productos :
          stock[p] < StockInicial[p] =>
              \E d \in detalles_venta :
                  d.producto = p /\ \E v \in ventas : v.id = d.venta

\* one confirmation committed and another one failed
C4_Witness ==
    /\ ventas # {}
    /\ \E p \in Productos : stock[p] < StockInicial[p]
    /\ \E r \in Reqs : tx[r].pc = "error"
                       /\ tx[r].err \in {"stock_insuficiente", "interno"}

\* C5: the stock of every product is >= 0 in every committed state.
C5_StockNonNegative == \A p \in Productos : stock[p] >= 0

\* a product is sold out and a confirmation asking for it was refused
C5_Witness ==
    /\ \E p \in Productos : stock[p] = 0
    /\ \E r \in Reqs : tx[r].err = "stock_insuficiente"

RECURSIVE SumaLineas(_)
SumaLineas(S) ==
    IF S = {} THEN 0
    ELSE LET d == CHOOSE x \in S : TRUE
         IN  d.cantidad * d.precio_historico + SumaLineas(S \ {d})

SubtotalVenta(v) == SumaLineas({d \in detalles_venta : d.venta = v.id})

\* C6: for every Venta, its total, the amount of its Pago and the total of its
\* Carrito are the amount captured for the session of the Pago, and that amount
\* is the sum of quantity x historical price over its lines plus the shipping
\* cost of that sum; the historical prices written at commit are the prices
\* the catalog holds at commit.
C6_TotalsAgree ==
    /\ [](\A v \in ventas :
            /\ \A x \in pagos : x.venta = v.id =>
                  /\ x.monto_total = v.total
                  /\ x.stripe_payment_intent_id \in 1..Len(sesiones)
                  /\ sesiones[x.stripe_payment_intent_id].amount_total = v.total
            /\ \A x \in carritos : x.id = v.carrito => x.total = v.total
            /\ v.total = SubtotalVenta(v) + calcular_costo_envio(SubtotalVenta(v)))
    /\ [][\A d \in detalles_venta' \ detalles_venta :
            d.precio_historico = precio[d.producto]]_vars

\* a Venta of two lines is committed after the price of product 1 was changed
C6_Witness ==
    \E v \in ventas :
        /\ Cardinality({d \in detalles_venta : d.venta = v.id}) = 2
        /\ \E d \in detalles_venta : d.venta = v.id /\ d.precio_historico = 6000
        /\ \E x \in pagos : x.venta = v.id

\* the prices read under the lock are the unit amounts sent at quote time
PreciosSinCambio(r) ==
    /\ Len(tx[r].lineas) = Len(ItemsDe(r))
    /\ \A i \in 1..Len(ItemsDe(r)) :
          tx[r].lineas[i].precio_unitario
              = sesiones[tx[r].sid].line_items[i].unit_amount

\* C7: when a confirmation has read every cart line at the price its session
\* was quoted at, the total it recomputes is the amount captured, and it does
\* not fail with a discrepancy.
C7_PricingRoundTrip ==
    \A r \in Reqs :
        (tx[r].pc = "cierre" /\ PreciosSinCambio(r)) =>
            /\ total_final_seguro(r) = total_pagado(r)
            /\ ~Discrepancia(r)

\* a confirmation of a cart of both products is about to compare the totals,
\* all prices as quoted, the total including a shipping cost
C7_Witness ==
    \E r \in Reqs :
        /\ tx[r].pc = "cierre"
        /\ PreciosSinCambio(r)
        /\ Len(ItemsDe(r)) = 2
        /\ ItemsDe(r)[1].producto_id # ItemsDe(r)[2].producto_id
        /\ calcular_costo_envio(tx[r].subtotal) > 0

RECURSIVE SumaPuntos(_)
SumaPuntos(S) ==
    IF S = {} THEN 0
    ELSE LET v == CHOOSE x \in S : TRUE
         IN  puntos_ganados(v.total) + SumaPuntos(S \ {v})

\* C8: two confirmations of the same completed session of a one-line cart that
\* both commit leave two Ventas and two Pagos with the session's payment
\* reference, the stock of the product decremented twice and the points of
\* the sale accrued twice.
C8_ReplayProcessedTwice ==
    \A r1, r2 \in Reqs :
        (r1 < r2 /\ tx[r1].pc = "ok" /\ tx[r2].pc = "ok"
            /\ tx[r1].sid = tx[r2].sid /\ Len(ItemsDe(r1)) = 1) =>
        LET ses == sesiones[tx[r1].sid]
            item == ses.items_data[1]
        IN  /\ \E v1, v2 \in ventas : v1.id = r1 /\ v2.id = r2
            /\ \A r \in {r1, r2} : \E x \in pagos :
                  x.venta = r /\ x.stripe_payment_intent_id = ses.payment_intent
            /\ stock[item.producto_id]
                  = StockInicial[item.producto_id] - 2 * item.cantidad
            /\ puntos[ses.user_id] = 2 * puntos_ganados(ses.amount_total)

\* C9: the balance of every customer is the sum of the points of the committed
\* Ventas of that customer (the initial balance is 0).
C9_PointsLedger ==
    \A c \in Clientes :
        puntos[c] = SumaPuntos({v \in ventas : v.cliente = c})

VariantesSesion(s) ==
    { [NuevaSesion(1, 1, << [producto_id |-> 1, cantidad |-> 1] >>)
          EXCEPT !.status = st, !.payment_intent = pi, !.user_id = u,
                 !.direccion_entrega = d] :
        st \in {"open", "complete", "expired"}, pi \in {0, s}, u \in {0, 1},
        d \in {"", "calle"} }

InitSesion ==
    /\ stock = StockInicial
    /\ precio = PrecioInicial
    /\ producto_tienda = TiendaInicial
    /\ producto_estado = EstadoInicial
    /\ puntos = [c \in Clientes |-> 0]
    /\ asociaciones = AsociacionInicial
    /\ carritos = {}
    /\ detalles_carrito = {}
    /\ ventas = {}
    /\ detalles_venta = {}
    /\ pagos = {}
    /\ envios = {}
    /\ \E s1 \in VariantesSesion(1), s2 \in VariantesSesion(2) :
          sesiones = << s1, s2 >>
    /\ tx = [r \in {1, 2} |-> TxLibre]

NextSesion ==
    \/ \E s \in SesionIds : Pagar(s)
    \/ \E r \in Reqs : \E sid \in 0..Len(sesiones) : Iniciar(r, sid)
    \/ \E r \in Reqs : AsegurarAsociacion(r)
    \/ \E r \in Reqs : ProcesarItem(r)
    \/ \E r \in Reqs, falla \in BOOLEAN : Cerrar(r, falla)

SpecSesion == InitSesion /\ [][NextSesion]_vars

\* the session of request r passed both checks of lines 198 and 211
SesionAceptable(r) ==
    /\ tx[r].sid \in 1..Len(sesiones)
    /\ sesiones[tx[r].sid].status = "complete"
    /\ MetadataCompleta(sesiones[tx[r].sid])

RechazoDeSesion == {"no_completada", "metadata_incompleta"}

\* C11: an order exists only for a session that was retrieved 'complete' with
\* user id, store id, address, items and payment reference present; a request
\* inside the transaction or answered 200 has such a session; a request for a
\* session in another state or with incomplete metadata is answered with an
\* error straight from its start, before the transaction, and the database is
\* left as it was.
C11_OnlyCompleteSessions ==
    /\ [](\A v \in ventas : tx[v.id].pc = "ok" /\ SesionAceptable(v.id))
    /\ [](\A r \in Reqs : (Activa(r) \/ tx[r].pc = "ok") => SesionAceptable(r))
    /\ [][\A r \in Reqs :
            /\ (tx[r].pc = "libre" /\ tx'[r].pc # "libre" /\ tx'[r].sid # 0
                /\ ~(/\ sesiones[tx'[r].sid].status = "complete"
                     /\ MetadataCompleta(sesiones[tx'[r].sid])))
               => (tx'[r].pc = "error" /\ tx'[r].err \in RechazoDeSesion
                   /\ UNCHANGED db)
            /\ (tx'[r] # tx[r] /\ tx'[r].err \in RechazoDeSesion)
               => (tx[r].pc = "libre" /\ UNCHANGED db)]_vars

\* one request was refused for its session while another one committed an order
C11_Witness ==
    \E r, q \in Reqs :
        /\ tx[r].err = "metadata_incompleta"
        /\ tx[q].pc = "ok" /\ \E v \in ventas : v.id = q

\* ------------------------------------------- the shipping cost (C12, C13)
\* subtotals around 0 and around the thresholds 100.00, 500.00 and 1000.00
SubtotalesEnvio ==
    (0..60) \cup (9990..10010) \cup (49990..50010) \cup (99985..100005)

\* one subtotal on each side of every threshold
SubtotalesDeTramo == {1, 9999, 10000, 49999, 50000, 99999, 100000}

\* the catalog prices are drawn from the subtotals; a cart of one unit of one
\* product has that price as its subtotal
InitEnvio ==
    /\ stock = StockInicial
    /\ \E a \in SubtotalesEnvio, b \in SubtotalesDeTramo :
          precio = [p \in Productos |-> IF p = 1 THEN a ELSE b]
    /\ producto_tienda = TiendaInicial
    /\ producto_estado = EstadoInicial
    /\ puntos = [c \in Clientes |-> 0]
    /\ asociaciones = AsociacionInicial
    /\ carritos = {}
    /\ detalles_carrito = {}
    /\ ventas = {}
    /\ detalles_venta = {}
    /\ pagos = {}
    /\ envios = {}
    /\ sesiones = << >>
    /\ tx = [r \in {1} |-> TxLibre]

NextEnvio ==
    \/ \E p \in Productos :
          crear_sesion_checkout(1, 1, << [producto_id |-> p, cantidad |-> 1] >>)
    \/ \E s \in SesionIds : Pagar(s)
    \/ \E r \in Reqs : \E sid \in 1..Len(sesiones) : Iniciar(r, sid)
    \/ \E r \in Reqs : AsegurarAsociacion(r)
    \/ \E r \in Reqs : ProcesarItem(r)
    \/ \E r \in Reqs : Cerrar(r, FALSE)

SpecEnvio == InitEnvio /\ [][NextEnvio]_vars

\* the subtotal a session was quoted for and the shipping cost it charges
SubtotalDeSesion(ses) ==
    SumaSeq([i \in 1..Len(ses.items_data) |->
                ses.line_items[i].unit_amount * ses.line_items[i].quantity])

EnvioDeSesion(ses) == ses.amount_total - SubtotalDeSesion(ses)

\* the rate table as the specification words it, and rounding half up of
\* n/100 centavos
TasaDeclarada(S) ==
    IF S = 0 THEN 0
    ELSE IF S < 10000 THEN 15
    ELSE IF S < 50000 THEN 10
    ELSE IF S < 100000 THEN 5
    ELSE 0

RedondeoMitadArriba(n) == (n + 50) \div 100

\* C12: for every subtotal S, the shipping cost charged is S x rate(S) rounded
\* to two decimals half up, with rate 0% at S = 0, 15% below 100, 10% below
\* 500, 5% below 1000 and 0% from 1000 on.
C12_ShippingRoundHalfUp ==
    \A s \in 1..Len(sesiones) :
        LET S == SubtotalDeSesion(sesiones[s])
        IN  EnvioDeSesion(sesiones[s]) = RedondeoMitadArriba(S * TasaDeclarada(S))

\* the rate of a lower subtotal is never below the rate of a higher one, for
\* the subtotals of any two sessions
TramosNoCrecientes ==
    \A s1, s2 \in 1..Len(sesiones) :
        LET S1 == SubtotalDeSesion(sesiones[s1])
            S2 == SubtotalDeSesion(sesiones[s2])
        IN  (0 < S1 /\ S1 <= S2) => porcentaje_envio(S1) >= porcentaje_envio(S2)

\* the confirmation recomputes for the subtotal it sums the cost the quote
\* charged for it
MismoCostoAlConfirmar ==
    \A r \in Reqs :
        (tx[r].pc = "cierre" /\ tx[r].subtotal = SubtotalDeSesion(sesiones[tx[r].sid]))
        => calcular_costo_envio(tx[r].subtotal) = EnvioDeSesion(sesiones[tx[r].sid])

\* C13 as stated: the shipping cost is the same at quote and at confirmation,
\* is never negative, is at most 15 % of the subtotal, and the rate does not
\* grow with the subtotal.
C13_AtMostFifteenPercent ==
    /\ MismoCostoAlConfirmar
    /\ TramosNoCrecientes
    /\ \A s \in 1..Len(sesiones) :
          /\ EnvioDeSesion(sesiones[s]) >= 0
          /\ 100 * EnvioDeSesion(sesiones[s]) <= 15 * SubtotalDeSesion(sesiones[s])

\* C13, amended: the shipping cost is the same at quote and at confirmation, is
\* never negative, is at most 15 % of the subtotal rounded to the centavo (at
\* most half a centavo above 15 %), and the rate does not grow with the
\* subtotal.
C13_AtMostFifteenPercentRounded ==
    /\ MismoCostoAlConfirmar
    /\ TramosNoCrecientes
    /\ \A s \in 1..Len(sesiones) :
          /\ EnvioDeSesion(sesiones[s]) >= 0
          /\ 100 * EnvioDeSesion(sesiones[s])
                <= 15 * SubtotalDeSesion(sesiones[s]) + 50

\* a session whose cost was rounded up above 15 %, another one of a higher
\* tier, and a confirmation that recomputed the cost and committed
C13_Witness ==
    /\ \E s1, s2 \in 1..Len(sesiones) :
          /\ 100 * EnvioDeSesion(sesiones[s1]) > 15 * SubtotalDeSesion(sesiones[s1])
          /\ SubtotalDeSesion(sesiones[s2]) >= 10000
          /\ EnvioDeSesion(sesiones[s2]) > 0
    /\ \E r \in Reqs : tx[r].pc = "ok"

\* ------------------------------ the staff update of an order (C14, C16)
\* the choices of Venta.estado, Pago.estado and Envio.estado
ESTADOS_VENTA == {"EN_PROCESO", "PROCESADA"}
ESTADOS_PAGO == {"PENDIENTE", "COMPLETADO"}
ESTADOS_ENVIO == {"EN_PREPARACION", "ENVIADO"}

\* the body of a PATCH: "" is a field that is not sent, "INVALIDO" a value
\* outside the choices
DatosAdmin ==
    [estado       : ESTADOS_VENTA \cup {"", "INVALIDO"},
     pago_estado  : ESTADOS_PAGO \cup {"", "INVALIDO"},
     envio_estado : ESTADOS_ENVIO \cup {"", "INVALIDO"}]

\* any value is taken for the shipment status
CualquierEstadoEnvio(e) == TRUE

\* line 463: the value is one of Envio.ESTADOS_ENVIO
EstadoEnvioValido(e) == e \in ESTADOS_ENVIO

\* lines 436-468: the answer of the update of order v with body d; every step
\* runs only if the steps before it did not answer
RespuestaAdmin(v, d) ==
    IF d.estado # "" /\ d.estado \notin ESTADOS_VENTA
    THEN "estado_venta_invalido"
    ELSE IF d.pago_estado # "" /\ ~(\E x \in pagos : x.venta = v)
    THEN "pago_no_encontrado"
    ELSE IF d.pago_estado # "" /\ d.pago_estado \notin ESTADOS_PAGO
    THEN "estado_pago_invalido"
    ELSE IF d.envio_estado # "" /\ ~(\E x \in envios : x.venta = v)
    THEN "envio_no_encontrado"
    ELSE IF d.envio_estado # "" /\ ~EstadoEnvioValido(d.envio_estado)
    THEN "estado_envio_invalido"
    ELSE ""

\* PATCH admin-ventas/{v}/: each of the three steps saves its row as soon as
\* its value is accepted; no transaction spans the steps
partial_update(r, v, d) ==
    /\ tx[r].pc = "libre"
    /\ \E x \in ventas : x.id = v
    /\ LET resp == RespuestaAdmin(v, d)
       IN  /\ ventas' =
                IF d.estado # "" /\ resp # "estado_venta_invalido"
                THEN {IF x.id = v THEN [x EXCEPT !.estado = d.estado] ELSE x :
                        x \in ventas}
                ELSE ventas
           /\ pagos' =
                IF d.pago_estado # ""
                   /\ resp \notin {"estado_venta_invalido", "pago_no_encontrado",
                                   "estado_pago_invalido"}
                THEN {IF x.venta = v THEN [x EXCEPT !.estado = d.pago_estado]
                      ELSE x : x \in pagos}
                ELSE pagos
           /\ envios' =
                IF d.envio_estado # "" /\ resp = ""
                THEN {IF x.venta = v THEN [x EXCEPT !.estado = d.envio_estado]
                      ELSE x : x \in envios}
                ELSE envios
           /\ tx' = [tx EXCEPT ![r] =
                        [pc |-> IF resp = "" THEN "ok" ELSE "error",
                         err |-> resp, venta |-> v, datos |-> d]]
    /\ UNCHANGED <<stock, precio, producto_tienda, producto_estado, puntos,
                   asociaciones, carritos, detalles_carrito, detalles_venta,
                   sesiones>>

\* one paid session; request 1 confirms it, requests 2 and 3 are staff updates
InitAdmin ==
    /\ stock = StockInicial
    /\ precio = PrecioInicial
    /\ producto_tienda = TiendaInicial
    /\ producto_estado = EstadoInicial
    /\ puntos = [c \in Clientes |-> 0]
    /\ asociaciones = AsociacionInicial
    /\ carritos = {}
    /\ detalles_carrito = {}
    /\ ventas = {}
    /\ detalles_venta = {}
    /\ pagos = {}
    /\ envios = {}
    /\ sesiones = << SesionUltimaUnidad(1, 1) >>
    /\ tx = [r \in {1, 2, 3} |-> TxLibre]

NextAdmin ==
    \/ Iniciar(1, 1)
    \/ AsegurarAsociacion(1)
    \/ ProcesarItem(1)
    \/ Cerrar(1, FALSE)
    \/ \E r \in {2, 3}, v \in {1}, d \in DatosAdmin : partial_update(r, v, d)

SpecAdmin == InitAdmin /\ [][NextAdmin]_vars

\* request r is a staff update that answers in this step
RespondeAdmin(r) ==
    /\ tx[r].pc = "libre"
    /\ tx'[r].pc # "libre"
    /\ "datos" \in DOMAIN tx'[r]

\* C14: a staff update that sends only the shipment status, with a value
\* outside its choices, is answered with the validation error of the shipment
\* field and leaves the order, payment and shipment rows as they were.
C14_InvalidShipmentStatus ==
    [][\A r \in Reqs :
          (/\ RespondeAdmin(r)
           /\ tx'[r].datos.estado = ""
           /\ tx'[r].datos.pago_estado = ""
           /\ tx'[r].datos.envio_estado \notin ESTADOS_ENVIO \cup {""})
          => /\ tx'[r].pc = "error"
             /\ tx'[r].err = "estado_envio_invalido"
             /\ UNCHANGED <<ventas, pagos, envios>>]_vars

\* after an accepted update of the three statuses, an update of the shipment
\* status alone was refused for its value
C14_Witness ==
    \E r, q \in Reqs :
        /\ tx[q].pc = "ok" /\ "datos" \in DOMAIN tx[q]
        /\ tx[q].datos.envio_estado = "ENVIADO"
        /\ tx[r].err = "estado_envio_invalido"
        /\ tx[r].datos.estado = "" /\ tx[r].datos.pago_estado = ""
        /\ \E x \in envios : x.estado = "ENVIADO"

\* C16: a refused staff update, whatever field refused it, leaves the order,
\* payment and shipment rows as they were.
C16_RejectedUpdateAppliesNothing ==
    [][\A r \in Reqs :
          (RespondeAdmin(r) /\ tx'[r].pc = "error")
          => UNCHANGED <<ventas, pagos, envios>>]_vars

\* ------------------------------------------------ stock conservation (C15)
RECURSIVE SumaCantidades(_)
SumaCantidades(S) ==
    IF S = {} THEN 0
    ELSE LET d == CHOOSE x \in S : TRUE
         IN  d.cantidad + SumaCantidades(S \ {d})

\* the units of product p over all committed order lines
UnidadesVendidas(p) == SumaCantidades({d \in detalles_venta : d.producto = p})

\* C15: for every product, initial stock minus current stock is the sum of the
\* quantities of all committed order lines of that product, also for a cart
\* that lists the product in two lines.
C15_StockConservation ==
    \A p \in Productos : StockInicial[p] - stock[p] = UnidadesVendidas(p)

\* ------------------------------- quotes and the catalog (C17, C18, C19)
\* cart lines of a quote: product 3 is not in the catalog, MaxStock + 1 units
\* are more than any product has
LineasCotizacion ==
    [producto_id : Productos \cup {3}, cantidad : {1, MaxStock + 1}]
CartsCotizacion == UNION {[1..n -> LineasCotizacion] : n \in {0, 1, 2}}

\* product 1 is of store 1, product 2 of store 2
InitCotizacion ==
    /\ stock = StockInicial
    /\ precio = PrecioInicial
    /\ producto_tienda = [p \in Productos |-> p]
    /\ producto_estado = EstadoInicial
    /\ puntos = [c \in Clientes |-> 0]
    /\ asociaciones = AsociacionInicial
    /\ carritos = {}
    /\ detalles_carrito = {}
    /\ ventas = {}
    /\ detalles_venta = {}
    /\ pagos = {}
    /\ envios = {}
    /\ sesiones = << >>
    /\ tx = [r \in {1, 2} |-> TxLibre]

\* user 0 has no customer profile, store 3 does not exist
NextCotizacion ==
    \/ \E r \in Reqs, c \in {0, 1}, t \in {1, 3}, items \in CartsCotizacion :
            Cotizar(r, c, t, items)
    \/ \E s \in SesionIds : Pagar(s)
    \/ CambiarEstado(1)
    \/ \E r \in Reqs : \E sid \in 1..Len(sesiones) : Iniciar(r, sid)
    \/ \E r \in Reqs : AsegurarAsociacion(r)
    \/ \E r \in Reqs : ProcesarItem(r)
    \/ \E r \in Reqs : Cerrar(r, FALSE)

SpecCotizacion == InitCotizacion /\ [][NextCotizacion]_vars

EsCotizacion(r) == "codigo" \in DOMAIN tx[r]

\* request r is a quote that answers in this step
RespondeCotizacion(r) ==
    /\ tx[r].pc = "libre"
    /\ "codigo" \in DOMAIN tx'[r]

\* the lines of order v are the lines of the cart, in order
LineasComoCarrito(v, items) ==
    /\ Cardinality({d \in detalles_venta : d.venta = v.id}) = Len(items)
    /\ \A i \in 1..Len(items) :
          \E d \in detalles_venta :
              /\ d.venta = v.id /\ d.n = i
              /\ d.producto = items[i].producto_id
              /\ d.cantidad = items[i].cantidad

\* C17: a quote, whatever it answers, writes no row; a quote that fails creates
\* no session either; the session of a successful quote carries the user id,
\* the store id, the address and the cart as they were asked, and an order is
\* made for exactly the customer, the store and the cart lines its session
\* carries.
C17_QuoteWritesNothing ==
    /\ [][\A r \in Reqs :
            RespondeCotizacion(r)
            => /\ UNCHANGED db
               /\ tx'[r].codigo # 200 => UNCHANGED sesiones
               /\ tx'[r].codigo = 200 =>
                    /\ Len(sesiones') = Len(sesiones) + 1
                    /\ \A s \in 1..Len(sesiones) : sesiones'[s] = sesiones[s]]_vars
    /\ [](\A r \in Reqs :
            (EsCotizacion(r) /\ tx[r].codigo = 200)
            => /\ sesiones[tx[r].sesion].user_id = tx[r].cliente
               /\ sesiones[tx[r].sesion].tienda_id = tx[r].tienda
               /\ sesiones[tx[r].sesion].items_data = tx[r].items
               /\ sesiones[tx[r].sesion].direccion_entrega # "")
    /\ [](\A v \in ventas :
            /\ v.cliente = sesiones[tx[v.id].sid].user_id
            /\ v.tienda = sesiones[tx[v.id].sid].tienda_id
            /\ LineasComoCarrito(v, sesiones[tx[v.id].sid].items_data))

\* a quote was answered 200 and its session was paid and confirmed into an
\* order
C17_Witness ==
    \E r, q \in Reqs :
        /\ EsCotizacion(r) /\ tx[r].codigo = 200
        /\ ~EsCotizacion(q) /\ tx[q].pc = "ok" /\ tx[q].sid = tx[r].sesion
        /\ \E v \in ventas : v.id = q

\* the product of the line exists in store t and is active
EnTiendaYActivo(t, linea) ==
    /\ linea.producto_id \in Productos
    /\ producto_tienda[linea.producto_id] = t
    /\ producto_estado[linea.producto_id]

\* the line asks for more units than its product has
SobreStock(t, linea) ==
    EnTiendaYActivo(t, linea) /\ stock[linea.producto_id] < linea.cantidad

\* C18: a quote creates a session only if the product of every cart line
\* exists in the target store, is active and has at least the stock the line
\* asks for; a customer's cart with a missing, inactive or other-store product
\* is answered 404, one that asks for more than the stock is answered 400 (the
\* first offending line decides when a cart has both), and in both cases no
\* session is created.
C18_QuoteEligibility ==
    [][\A r \in Reqs :
          RespondeCotizacion(r)
          => LET t == tx'[r].tienda
                 items == tx'[r].items
                 L == 1..Len(items)
             IN  /\ Len(sesiones') > Len(sesiones)
                    => \A i \in L : /\ EnTiendaYActivo(t, items[i])
                                    /\ ~SobreStock(t, items[i])
                 /\ (tx'[r].cliente \in Clientes /\ t \in TiendasCatalogo)
                    => /\ (\E i \in L : \/ ~EnTiendaYActivo(t, items[i])
                                        \/ SobreStock(t, items[i]))
                          => (tx'[r].codigo \in {400, 404} /\ UNCHANGED sesiones)
                       /\ (/\ \E i \in L : ~EnTiendaYActivo(t, items[i])
                           /\ \A i \in L : ~SobreStock(t, items[i]))
                          => tx'[r].codigo = 404
                       /\ (/\ \A i \in L : EnTiendaYActivo(t, items[i])
                           /\ \E i \in L : SobreStock(t, items[i]))
                          => tx'[r].codigo = 400
                       /\ (\E i \in L :
                              /\ ~EnTiendaYActivo(t, items[i])
                              /\ \A j \in 1..(i - 1) : ~SobreStock(t, items[j]))
                          => tx'[r].codigo = 404]_vars

\* a quote for the deactivated product 1 was answered 404 and a quote asking
\* for more than the stock was answered 400; no session exists
C18_Witness ==
    \E r, q \in Reqs :
        /\ EsCotizacion(r) /\ tx[r].codigo = 404 /\ tx[r].tienda = 1
        /\ tx[r].items = << [producto_id |-> 1, cantidad |-> 1] >>
        /\ ~producto_estado[1]
        /\ EsCotizacion(q) /\ tx[q].codigo = 400 /\ tx[q].items # << >>
        /\ tx[q].cliente = 1
        /\ sesiones = << >>

\* C19: every product of an order that commits is, at that commit, active and
\* of the store of the order.
C19_EligibleAtCommit ==
    [][\A d \in detalles_venta' \ detalles_venta :
          /\ producto_estado[d.producto]
          /\ \E v \in ventas' : v.id = d.venta /\ producto_tienda[d.producto] = v.tienda]_vars

\* --------------------------------------- waits between confirmations (C20)
\* Here the end of the transaction is taken in two steps, so that the row lock
\* of the customer, held from the UPDATE of line 315 to the commit, is seen.

\* r is about to update the customer row that q has updated and not committed
EsperaCliente(r, q) ==
    /\ r # q
    /\ tx[r].pc = "cierre"
    /\ ~Discrepancia(r)
    /\ tx[q].pc = "commit"
    /\ ClienteDe(q) = ClienteDe(r)

\* lines 270-315: the totals are compared, the rows are created and the
\* customer row is updated, which takes its row lock
ActualizarPuntos(r) ==
    /\ tx[r].pc = "cierre"
    /\ IF Discrepancia(r)
       THEN Rollback(r, "discrepancia")
       ELSE /\ \A q \in Reqs : ~EsperaCliente(r, q)
            /\ tx' = [tx EXCEPT ![r].pc = "commit"]
            /\ UNCHANGED db
    /\ UNCHANGED sesiones

\* lines 317-328: the audit record and the commit of the atomic block
Confirmar(r) ==
    /\ tx[r].pc = "commit"
    /\ Commit(r)
    /\ UNCHANGED sesiones

ReqsBloqueos == {1, 2}

\* a paid session of customer c for one unit of each product of prods
SesionPagada(c, s, prods) ==
    [NuevaSesion(c, 1, [i \in 1..Len(prods) |->
                            [producto_id |-> prods[i], cantidad |-> 1]])
        EXCEPT !.status = "complete", !.payment_intent = s]

\* two paid sessions: the first for product 1, or 1 then 2; the second for
\* product 2, or 2 then 1; of the same customer or of two
InitBloqueos ==
    /\ stock = StockInicial
    /\ precio = PrecioInicial
    /\ producto_tienda = TiendaInicial
    /\ producto_estado = EstadoInicial
    /\ puntos = [c \in Clientes |-> 0]
    /\ asociaciones = AsociacionInicial
    /\ carritos = {}
    /\ detalles_carrito = {}
    /\ ventas = {}
    /\ detalles_venta = {}
    /\ pagos = {}
    /\ envios = {}
    /\ \E c1, c2 \in Clientes, a \in {<<1>>, <<1, 2>>}, b \in {<<2>>, <<2, 1>>} :
          sesiones = << SesionPagada(c1, 1, a), SesionPagada(c2, 2, b) >>
    /\ tx = [r \in ReqsBloqueos |-> TxLibre]

\* the steps of request r, the failure of its statement by the deadlock
\* detection of the database among them
Paso(r) ==
    \/ \E sid \in 1..Len(sesiones) : Iniciar(r, sid)
    \/ AsegurarAsociacion(r)
    \/ ProcesarItem(r)
    \/ AbortarDeadlock(r)
    \/ ActualizarPuntos(r)
    \/ Confirmar(r)

NextBloqueos == \E r \in ReqsBloqueos : Paso(r)

\* every request that can take a step eventually takes one
SpecBloqueos ==
    /\ InitBloqueos
    /\ [][NextBloqueos]_vars
    /\ \A r \in ReqsBloqueos : WF_vars(Paso(r))

\* the statement r is at waits for a lock or an uncommitted insert of q
EsperaA(r, q) ==
    \/ Espera(r, q)
    \/ EsperaCliente(r, q)
    \/ /\ r # q
       /\ tx[r].pc = "asoc"
       /\ asociaciones[ClienteDe(r)] = 0
       /\ Activa(q) /\ tx[q].asoc_nueva /\ ClienteDe(q) = ClienteDe(r)

CompartenProducto(r, q) ==
    \E i \in 1..Len(ItemsDe(r)), j \in 1..Len(ItemsDe(q)) :
        ItemsDe(r)[i].producto_id = ItemsDe(q)[j].producto_id

====
